---- MODULE Spec2Model ----
(***************************************************************************)
(* A model of the Snips RMV skill (src/action-s710-rmv.py): the intent     *)
(* handler on_intent, the query pipeline (get_location_id, get_trip,       *)
(* process_leg_list, make_response) and done.                              *)
(*                                                                         *)
(* Representation of Python values                                         *)
(*   None            [t |-> "None"]                                        *)
(*   False           [t |-> "bool", v |-> FALSE]                           *)
(*   a str s         [t |-> "str", v |-> s]     (s a TLA+ string)          *)
(*   an int n        [t |-> "int", v |-> n]                                *)
(*   a tuple (a, b)  [t |-> "tuple", v |-> <<a, b>>]                       *)
(*   a list          [t |-> "list", v |-> <<...>>]                         *)
(*   an exception    [t |-> "exception", v |-> its class name]             *)
(* A JSON object whose keys are looked up by the code is a TLA+ record;    *)
(* "k in d" is k \in DOMAIN d.  The result of a call is either             *)
(* [k |-> "return", v |-> value] or [k |-> "raise", e |-> exception name]. *)
(***************************************************************************)
EXTENDS Integers, Sequences, FiniteSets, TLC

VARIABLES
    pc,          \* position of the handler
    cfg,         \* App fields read from config.ini: rmv_homecity_only, time_offset, short_info
    intent,      \* the intent message received
    location,    \* on_intent: location
    dep_time,    \* on_intent: dep_time
    origin_id,   \* query: origin_id
    dest_id,     \* query: dest_id
    now,         \* the wall clock read by query (time.time()), when it was read
    tme,         \* query: tme (dep_time at first, line 164)
    leg_list,    \* get_trip: first_leg_list, the raw legs handed to process_leg_list
    stops,       \* query: stops
    response,    \* query's return value
    lookups,     \* the calls of get_location_id so far, with response and outcome
    requests,    \* the HTTP requests issued so far, in order
    calls,       \* the pipeline stages entered so far, in order
    published,   \* the publish_end_session calls so far
    exc          \* the exception that left on_intent, if one did

vars == <<pc, cfg, intent, location, dep_time, origin_id, dest_id, now, tme,
          leg_list, stops, response, lookups, requests, calls, published, exc>>

-----------------------------------------------------------------------------
(* Python values and call results *)

PyNone == [t |-> "None"]
PyFalse == [t |-> "bool", v |-> FALSE]
PyStr(s) == [t |-> "str", v |-> s]
PyInt(n) == [t |-> "int", v |-> n]
PyTuple(a, b) == [t |-> "tuple", v |-> <<a, b>>]
PyList(s) == [t |-> "list", v |-> s]
PyException(e) == [t |-> "exception", v |-> e]

\* Python truth value testing ("not x" is ~Truthy(x))
Truthy(x) ==
    CASE x.t = "None" -> FALSE
      [] x.t = "bool" -> x.v
      [] x.t = "str" -> x.v # ""
      [] x.t = "int" -> x.v # 0
      [] x.t = "tuple" -> Len(x.v) > 0
      [] x.t = "list" -> Len(x.v) > 0

Return(v) == [k |-> "return", v |-> v]
Raise(e) == [k |-> "raise", e |-> e]

-----------------------------------------------------------------------------
(* str methods used by the code *)

RECURSIVE SplitAt(_, _, _, _)
SplitAt(s, sep, i, cur) ==
    IF i > Len(s) THEN <<cur>>
    ELSE IF SubSeq(s, i, i) = sep
         THEN <<cur>> \o SplitAt(s, sep, i + 1, "")
         ELSE SplitAt(s, sep, i + 1, cur \o SubSeq(s, i, i))

\* s.split(sep), sep a single character
Split(s, sep) == SplitAt(s, sep, 1, "")

RECURSIVE Join(_, _)
\* sep.join(parts)
Join(parts, sep) ==
    IF Len(parts) = 0 THEN ""
    ELSE IF Len(parts) = 1 THEN parts[1]
    ELSE parts[1] \o sep \o Join(Tail(parts), sep)

\* parts[:n]
Take(parts, n) == SubSeq(parts, 1, IF Len(parts) < n THEN Len(parts) ELSE n)

\* The characters str.strip() removes from an ASCII string: tab, line feed,
\* carriage return, form feed, vertical tab, the separators 0x1c-0x1f and the
\* space (the strings of this model are ASCII)
Whitespace == "\t\n\r\f "

\* c.isspace() for a character c
IsSpace(c) == \E i \in 1..Len(Whitespace) : SubSeq(Whitespace, i, i) = c

RECURSIVE LStrip(_)
\* s.lstrip(): the leading part of s.strip()
LStrip(s) ==
    IF Len(s) > 0 /\ IsSpace(SubSeq(s, 1, 1))
    THEN LStrip(SubSeq(s, 2, Len(s))) ELSE s

RECURSIVE RStrip(_)
\* s.rstrip(): the trailing part of s.strip()
RStrip(s) ==
    IF Len(s) > 0 /\ IsSpace(SubSeq(s, Len(s), Len(s)))
    THEN RStrip(SubSeq(s, 1, Len(s) - 1)) ELSE s

\* s.strip()
Strip(s) == RStrip(LStrip(s))

Digit(d) == SubSeq("0123456789", d + 1, d + 1)

RECURSIVE NatToStr(_)
\* str(n) for an int n >= 0
NatToStr(n) == IF n < 10 THEN Digit(n) ELSE NatToStr(n \div 10) \o Digit(n % 10)

\* strftime's %H and %M: two digits
Pad2(n) == Digit(n \div 10) \o Digit(n % 10)

\* s.endswith(suffix)
EndsWith(s, suffix) ==
    /\ Len(suffix) <= Len(s)
    /\ SubSeq(s, Len(s) - Len(suffix) + 1, Len(s)) = suffix

\* s.count(sub) for a sub that cannot overlap itself: the positions where
\* sub occurs in s
Count(s, sub) ==
    Cardinality({i \in 1..(Len(s) - Len(sub) + 1) :
                    SubSeq(s, i, i + Len(sub) - 1) = sub})

-----------------------------------------------------------------------------
(* Global definitions and fixed texts *)

LOCATION_SVC == "https://www.rmv.de/hapi/location.name"
TRIP_SVC == "https://www.rmv.de/hapi/trip"
GetTrainTo == "s710:getTrainTo"
Apology == "Verbindung konnte nicht abgefragt werden"

\* Configuration that the model keeps fixed (config.ini: secret/rmv_api_key,
\* global/rmv_homestation, global/rmv_homecity)
rmv_api_key == PyStr("key")
rmv_homestation == PyStr("Hauptbahnhof")
rmv_homecity == PyStr("Frankfurt")

-----------------------------------------------------------------------------
(* HTTP responses: requests.get either raises (transport failure) or       *)
(* returns r with r.status_code and r.content.  A content is empty, is not *)
(* JSON ("garbage"), or is the JSON document doc.                          *)

TransportFailure == [transport |-> "failed"]
HttpResponse(status, content) ==
    [transport |-> "ok", status_code |-> status, content |-> content]
EmptyBody == [raw |-> "empty"]
GarbageBody == [raw |-> "garbage"]
JsonBody(doc) == [raw |-> "json", doc |-> doc]

\* "not r.content"
ContentIsEmpty(content) == content.raw = "empty"

\* json.loads(r.content.decode('utf-8'))
json_loads(content) ==
    IF content.raw = "json" THEN Return(content.doc) ELSE Raise("ValueError")

ErrorDoc == [errorCode |-> "SVC_LOC", errorText |-> "location unknown"]
FullStop == [extId |-> "3000010", name |-> "Frankfurt (Main) Hauptwache"]

\* The outcomes of the location search
LocationResponses == <<
    TransportFailure,
    HttpResponse(404, JsonBody(ErrorDoc)),
    HttpResponse(200, EmptyBody),
    HttpResponse(200, GarbageBody),
    HttpResponse(200, JsonBody(ErrorDoc)),
    HttpResponse(200, JsonBody([stopLocationOrCoordLocation |->
        [t |-> "dict", v |-> [StopLocation |-> FullStop]]])),
    HttpResponse(200, JsonBody([stopLocationOrCoordLocation |-> PyList(<<>>)])),
    HttpResponse(200, JsonBody([stopLocationOrCoordLocation |->
        PyList(<<[CoordLocation |-> [name |-> "Zeil 1"]]>>)])),
    HttpResponse(200, JsonBody([stopLocationOrCoordLocation |->
        PyList(<<[StopLocation |-> [name |-> "Frankfurt (Main) Hauptwache"]]>>)])),
    HttpResponse(200, JsonBody([stopLocationOrCoordLocation |->
        PyList(<<[StopLocation |-> [extId |-> "3000010"]]>>)])),
    HttpResponse(200, JsonBody([stopLocationOrCoordLocation |->
        PyList(<<[StopLocation |-> FullStop]>>)]))
>>

\* The response has the full expected shape of section 6 of the specification
FullLocationShape(r) ==
    /\ r.transport = "ok"
    /\ r.status_code = 200
    /\ r.content.raw = "json"
    /\ "stopLocationOrCoordLocation" \in DOMAIN r.content.doc
    /\ r.content.doc.stopLocationOrCoordLocation.t = "list"
    /\ Len(r.content.doc.stopLocationOrCoordLocation.v) > 0
    /\ "StopLocation" \in DOMAIN r.content.doc.stopLocationOrCoordLocation.v[1]
    /\ {"extId", "name"} \subseteq
           DOMAIN r.content.doc.stopLocationOrCoordLocation.v[1].StopLocation

-----------------------------------------------------------------------------
(* get_location_id *)

\* lines 209-212: the request parameters; None + " " + city raises TypeError
location_params(location_name, city) ==
    IF city # PyNone
    THEN IF location_name.t = "str"
         THEN Return([accessId |-> rmv_api_key, type |-> "S", format |-> "json",
                      maxNo |-> 1,
                      input |-> PyStr(location_name.v \o " " \o city.v)])
         ELSE Raise("TypeError")
    ELSE Return([accessId |-> rmv_api_key, type |-> "S", format |-> "json",
                 maxNo |-> 1, input |-> location_name])

\* lines 214-240: what get_location_id does with the outcome r of requests.get
location_result(r) ==
    IF r.transport = "failed" THEN Raise("ConnectionError")
    ELSE IF r.status_code # 200 \/ ContentIsEmpty(r.content) THEN Return(PyNone)
    ELSE LET parsed == json_loads(r.content) IN
    IF parsed.k = "raise" THEN Return(PyNone)
    ELSE LET dict == parsed.v IN
    IF \/ "stopLocationOrCoordLocation" \notin DOMAIN dict
       \/ dict.stopLocationOrCoordLocation.t # "list"
    THEN Return(PyNone)
    ELSE LET found == dict.stopLocationOrCoordLocation.v IN
    IF Len(found) = 0 THEN Raise("IndexError")
    ELSE IF "StopLocation" \notin DOMAIN found[1] THEN Return(PyNone)
    ELSE LET stop == found[1].StopLocation IN
    IF "extId" \notin DOMAIN stop \/ "name" \notin DOMAIN stop
    THEN Raise("KeyError")
    ELSE Return(PyTuple(stop.extId, stop.name))

\* get_location_id(location_name, city) when the search answers r: the
\* request issued (if one was) and the outcome of the call
get_location_id(location_name, city, r) ==
    LET params == location_params(location_name, city) IN
    IF params.k = "raise"
    THEN [issued |-> FALSE, out |-> params]
    ELSE [issued |-> TRUE, out |-> location_result(r),
          request |-> [url |-> LOCATION_SVC, params |-> params.v]]

-----------------------------------------------------------------------------
(* Raw legs of the trip service (section 6, RawLeg): JSON objects *)

Place(name, time) == [name |-> name, time |-> time]

\* The legs that trip responses of the pipeline are built from
TripLegSamples == <<
    \* an S-Bahn ride
    [Origin |-> Place("Hauptbahnhof", "08:15:00"),
     Destination |-> Place("Hauptwache", "08:22:00"),
     type |-> "JNY", name |-> " \t S5\n", direction |-> "Bad Homburg",
     Product |-> [catOutL |-> "\tS-Bahn \r\n", name |-> "S5"]],
    \* a walk
    [Origin |-> Place("Zeil", "08:01:30"),
     Destination |-> Place("Konstablerwache", "08:04:30"),
     type |-> "WALK", dist |-> 120],
    \* a ride whose Product carries no catOutL
    [Origin |-> Place("Galluswarte", "09:02:00"),
     Destination |-> Place("Messe", "09:05:00"),
     type |-> "JNY", name |-> "Tram 11", direction |-> "Fechenheim",
     Product |-> [name |-> "Tram 11"]],
    \* legs that lack a required field
    [Origin |-> Place("Ginnheim", "10:00:00"),
     Destination |-> [time |-> "10:10:00"],
     type |-> "JNY", name |-> "S6", direction |-> "Friedberg",
     Product |-> [catOutL |-> "S-Bahn"]],
    [Origin |-> [name |-> "Ginnheim"],
     Destination |-> Place("Nordwestzentrum", "10:12:00"),
     type |-> "WALK", dist |-> 80],
    [Origin |-> Place("Ginnheim", "10:20:00"),
     Destination |-> [name |-> "Heddernheim"],
     type |-> "JNY", name |-> "U1", direction |-> "Heddernheim",
     Product |-> [catOutL |-> "U-Bahn"]],
    [Origin |-> [time |-> "10:30:00"],
     Destination |-> Place("Heddernheim", "10:31:00"),
     type |-> "JNY", name |-> "U9", direction |-> "Nieder-Eschbach",
     Product |-> [catOutL |-> "U-Bahn"]]
>>

\* The legs that process_leg_list and make_response are applied to on their own
LegSamples == TripLegSamples \o <<
    \* a bus ride
    [Origin |-> Place("Konstablerwache", "08:30:00"),
     Destination |-> Place("Westbahnhof", "08:47:00"),
     type |-> "JNY", name |-> "\fBus 36", direction |-> "Westbahnhof",
     Product |-> [catOutL |-> "Bus\n "]],
    \* a walk without dist
    [Origin |-> Place("Messe", "09:06:00"),
     Destination |-> Place("Festhalle", "09:11:00"),
     type |-> "WALK"],
    \* a U-Bahn ride without direction
    [Origin |-> Place("Festhalle", "09:15:00"),
     Destination |-> Place("Bockenheimer Warte", "09:18:00"),
     type |-> "JNY", name |-> "U4",
     Product |-> [catOutL |-> "U-Bahn"]],
    \* a walk that carries a Product category, a direction and a dist
    [Origin |-> Place("Bockenheimer Warte", "09:20:00"),
     Destination |-> Place("Campus", "09:26:00"),
     type |-> "WALK", dist |-> 450, name |-> "Fussweg", direction |-> "Campus",
     Product |-> [catOutL |-> "Fussweg"]],
    \* a ride with a dist
    [Origin |-> Place("Campus", "09:30:00"),
     Destination |-> Place("Ginnheim", "09:41:00"),
     type |-> "JNY", name |-> "U6", direction |-> "Ginnheim", dist |-> 3100,
     Product |-> [catOutL |-> "U-Bahn"]],
    \* a leg without Origin
    [Destination |-> Place("Riedberg", "10:41:00"),
     type |-> "JNY", name |-> "U8", direction |-> "Riedberg",
     Product |-> [catOutL |-> "U-Bahn"]]
>>

\* The raw leg lists of at most n legs
LegLists(samples, n) ==
    UNION { { [i \in 1..len |-> samples[ix[i]]] :
                ix \in [1..len -> 1..Len(samples)] } : len \in 0..n }

\* The leg has the four required fields
HasRequired(leg) ==
    /\ "Origin" \in DOMAIN leg
    /\ "Destination" \in DOMAIN leg
    /\ {"name", "time"} \subseteq DOMAIN leg.Origin
    /\ {"name", "time"} \subseteq DOMAIN leg.Destination

-----------------------------------------------------------------------------
(* process_leg_list *)

\* ":".join(t.split(":")[:2])
hour_minute(t) == Join(Take(Split(t, ":"), 2), ":")

\* line 282 and lines 284-296: the stop of one leg, or the KeyError of a
\* missing required field
process_leg(leg) ==
    IF ~HasRequired(leg) THEN Raise("KeyError")
    ELSE
    LET stop0 == [time |-> hour_minute(leg.Origin.time),
                  arrival |-> hour_minute(leg.Destination.time),
                  station |-> leg.Origin.name,
                  dest_station |-> leg.Destination.name]
        stop1 == IF "direction" \in DOMAIN leg
                 THEN stop0 @@ ("direction" :> leg.direction) ELSE stop0
        stop2 == IF "name" \in DOMAIN leg
                 THEN stop1 @@ ("train" :> Strip(leg.name)) ELSE stop1
        stop3 == IF "Product" \in DOMAIN leg /\ "catOutL" \in DOMAIN leg.Product
                 THEN stop2 @@ ("category" :> Strip(leg.Product.catOutL))
                 ELSE IF "type" \in DOMAIN leg /\ leg.type = "WALK"
                      THEN stop2 @@ ("category" :> "walk")
                      ELSE stop2
        stop4 == IF "dist" \in DOMAIN leg
                 THEN stop3 @@ ("distance" :> NatToStr(leg.dist)) ELSE stop3
    IN Return(stop4)

RECURSIVE process_legs(_, _)
\* lines 280-307: the loop over the legs, stops being the list built so far
process_legs(legs, stops_so_far) ==
    IF Len(legs) = 0 THEN PyList(stops_so_far)
    ELSE LET one == process_leg(Head(legs)) IN
         IF one.k = "raise" THEN PyNone
         ELSE process_legs(Tail(legs), Append(stops_so_far, one.v))

RECURSIVE process_legs_partial(_, _)
\* process_leg_list were it to skip a leg it cannot read
process_legs_partial(legs, stops_so_far) ==
    IF Len(legs) = 0 THEN PyList(stops_so_far)
    ELSE LET one == process_leg(Head(legs)) IN
         IF one.k = "raise" THEN process_legs_partial(Tail(legs), stops_so_far)
         ELSE process_legs_partial(Tail(legs), Append(stops_so_far, one.v))

process_leg_list_partial(legs) == process_legs_partial(legs, <<>>)

process_leg_list(legs) == process_legs(legs, <<>>)

-----------------------------------------------------------------------------
(* make_response *)

get_train_title(category, train) ==
    IF category = "U-Bahn" \/ category = "S-Bahn"
    THEN category \o " " \o train
    ELSE train

\* lines 321-327: the clause of stops[i], or the KeyError of a missing key
clause(stop, i) ==
    IF "category" \notin DOMAIN stop THEN Raise("KeyError")
    ELSE IF stop.category = "walk"
    THEN IF "distance" \notin DOMAIN stop THEN Raise("KeyError")
         ELSE Return(stop.distance \o " Meter laufen bis " \o stop.dest_station \o ". ")
    ELSE IF "train" \notin DOMAIN stop \/ "direction" \notin DOMAIN stop
    THEN Raise("KeyError")
    ELSE IF i = 1
    THEN Return(get_train_title(stop.category, stop.train) \o " Richtung "
                \o stop.direction \o " um " \o stop.time \o " Uhr. ")
    ELSE Return("Umsteigen an " \o stop.station \o " zu "
                \o get_train_title(stop.category, stop.train) \o " Richtung "
                \o stop.direction \o " um " \o stop.time \o " Uhr. ")

RECURSIVE response_loop_no_break(_, _, _, _)
\* the loop of make_response were it not to break in short form
response_loop_no_break(stop_list, i, response_string, short_info) ==
    IF i > Len(stop_list) THEN Return(response_string)
    ELSE LET c == clause(stop_list[i], i) IN
         IF c.k = "raise" THEN c
         ELSE response_loop_no_break(stop_list, i + 1, response_string \o c.v, short_info)

RECURSIVE response_loop(_, _, _, _)
\* lines 318-330: the loop from index i on (1-based), with its break
response_loop(stop_list, i, response_string, short_info) ==
    IF i > Len(stop_list) THEN Return(response_string)
    ELSE LET c == clause(stop_list[i], i) IN
         IF c.k = "raise" THEN c
         ELSE IF stop_list[i].category # "walk" /\ short_info
              THEN Return(response_string \o c.v)
              ELSE response_loop(stop_list, i + 1, response_string \o c.v, short_info)

\* lines 332-335 were the arrival taken from the first stop
arrival_clause_first(stop_list) == "Ankunft um " \o stop_list[1].arrival \o " Uhr."

\* lines 332-335: the arrival clause
arrival_clause(stop_list) ==
    "Ankunft um " \o stop_list[Len(stop_list)].arrival \o " Uhr."

\* make_response(stops) for the list stops (a Python list value)
make_response(stop_list, short_info) ==
    IF ~Truthy(stop_list) THEN Return(PyNone)
    ELSE LET body == response_loop(stop_list.v, 1, "", short_info) IN
         IF body.k = "raise" THEN body
         ELSE Return(PyStr(body.v \o arrival_clause(stop_list.v)))

-----------------------------------------------------------------------------
(* The departure time (query, lines 164 and 184-186) *)

Clock(h, m, sec) == [hour |-> h, minute |-> m, second |-> sec]

\* (datetime.fromtimestamp(time.time()) + timedelta(minutes = n)).strftime("%H:%M:00")
plus_minutes(clock, n) ==
    LET total == (clock.hour * 60 + clock.minute + n) % 1440
    IN Pad2(total \div 60) \o ":" \o Pad2(total % 60) \o ":00"

\* the condition were it to test the offset against None
computes_time_not_none(explicit, time_offset) ==
    ~Truthy(explicit) /\ time_offset # PyNone

\* "not tme and self.time_offset"
computes_time(explicit, time_offset) == ~Truthy(explicit) /\ Truthy(time_offset)

\* tme as handed to get_trip
departure_time(explicit, time_offset, clock) ==
    IF computes_time(explicit, time_offset)
    THEN PyStr(plus_minutes(clock, time_offset.v))
    ELSE explicit

-----------------------------------------------------------------------------
(* get_trip *)

\* lines 246-249: the request parameters
trip_params(origin, dest, time) ==
    LET base == [accessId |-> rmv_api_key, format |-> "json",
                 originExtId |-> origin.v[1], destExtId |-> dest.v[1]]
    IN IF time # PyNone THEN base @@ ("time" :> time) ELSE base

\* lines 266-270: dict["Trip"][0]["LegList"]["Leg"], any exception caught
first_leg_list(dict) ==
    IF /\ "Trip" \in DOMAIN dict
       /\ Len(dict.Trip) > 0
       /\ "LegList" \in DOMAIN dict.Trip[1]
       /\ "Leg" \in DOMAIN dict.Trip[1].LegList
    THEN Return(dict.Trip[1].LegList.Leg)
    ELSE Raise("KeyError")

\* get_trip(origin_id, dest_id, time) when the trip service answers r: the
\* request issued, the leg list handed to process_leg_list (if it was
\* called) and the outcome of the call
get_trip(origin, dest, time, r) ==
    LET request == [url |-> TRIP_SVC, params |-> trip_params(origin, dest, time)]
        unread(out) == [request |-> request, normalized |-> FALSE, out |-> out]
    IN
    IF r.transport = "failed" THEN unread(Raise("ConnectionError"))
    ELSE IF r.status_code # 200 \/ ContentIsEmpty(r.content) THEN unread(Return(PyNone))
    ELSE LET parsed == json_loads(r.content) IN
    IF parsed.k = "raise" THEN unread(Return(PyNone))
    ELSE LET legs == first_leg_list(parsed.v) IN
    IF legs.k = "raise" THEN unread(Return(PyNone))
    ELSE [request |-> request, normalized |-> TRUE, legs |-> legs.v,
          out |-> Return(process_leg_list(legs.v))]

TripDoc(legs) == [Trip |-> <<[LegList |-> [Leg |-> legs]]>>]

\* The outcomes of the trip request that carry no leg list
TripFailures == <<
    TransportFailure,
    HttpResponse(500, JsonBody(ErrorDoc)),
    HttpResponse(200, EmptyBody),
    HttpResponse(200, GarbageBody),
    HttpResponse(200, JsonBody(ErrorDoc)),
    HttpResponse(200, JsonBody([Trip |-> <<>>])),
    HttpResponse(200, JsonBody([Trip |-> <<[ServiceDays |-> "daily"]>>]))
>>

-----------------------------------------------------------------------------
(* Bounds and input sets *)

\* the longest leg list of a trip response in the pipeline
MaxTripLegs == 2
\* the longest leg list handed to process_leg_list on its own
MaxLegs == 3

\* global/time_offset of config.ini: absent, or int(...) of it
Offsets == {PyNone, PyInt(0), PyInt(5)}
NowSamples == {Clock(8, 15, 37), Clock(23, 58, 59)}

Unset == [t |-> "unset"]
Session == "session-1"

\* what intent_message.slots.X holds: no value, or one value
LocationSlots == {<<>>, <<"Hauptwache">>}
DepTimeSlots == {<<>>, <<"2019-08-26 18:30:00 +00:00">>, <<"">>}
IntentNames == {GetTrainTo, "s710:getWeather"}

IntentMessages ==
    [intent_name : IntentNames, session_id : {Session},
     Location : LocationSlots, DepTime : DepTimeSlots]

TripResponses ==
    {TripFailures[i] : i \in 1..Len(TripFailures)}
    \cup {HttpResponse(200, JsonBody(TripDoc(legs))) : legs \in LegLists(TripLegSamples, MaxTripLegs)}

-----------------------------------------------------------------------------
(* The handler, step by step *)

Init ==
    /\ pc = "idle"
    /\ cfg \in [rmv_homecity_only : BOOLEAN, time_offset : Offsets,
                short_info : BOOLEAN]
    /\ intent = Unset
    /\ location = Unset
    /\ dep_time = Unset
    /\ origin_id = Unset
    /\ dest_id = Unset
    /\ now = Unset
    /\ tme = Unset
    /\ leg_list = Unset
    /\ stops = Unset
    /\ response = Unset
    /\ lookups = <<>>
    /\ requests = <<>>
    /\ calls = <<>>
    /\ published = <<>>
    /\ exc = Unset

\* "2019-08-26 18:30:00 +00:00" -> "18:30:00" (line 150)
slot_time(value) ==
    LET words == Split(Strip(Split(value, "+")[1]), " ")
    IN words[Len(words)]

\* on_intent, lines 137-158, up to the call of query
on_intent ==
    /\ pc = "idle"
    /\ \E m \in IntentMessages :
        /\ intent' = m
        /\ location' = IF Len(m.Location) + Len(m.DepTime) > 0 /\ Len(m.Location) > 0
                       THEN PyStr(m.Location[1]) ELSE PyNone
        /\ dep_time' = IF Len(m.Location) + Len(m.DepTime) > 0 /\ Len(m.DepTime) > 0
                       THEN PyStr(slot_time(m.DepTime[1])) ELSE PyNone
        /\ IF m.intent_name = GetTrainTo
           THEN /\ pc' = "query_origin"
                /\ calls' = <<"query">>
           ELSE /\ pc' = "finished"
                /\ calls' = calls
    /\ UNCHANGED <<cfg, origin_id, dest_id, now, tme, leg_list, stops, response,
                   lookups, requests, published, exc>>

\* the bookkeeping of one call of get_location_id
Lookup(location_name, city, r, g) ==
    /\ lookups' = Append(lookups,
           [location_name |-> location_name, city |-> city, issued |-> g.issued,
            r |-> IF g.issued THEN r ELSE Unset, out |-> g.out])
    /\ requests' = IF g.issued THEN Append(requests, g.request) ELSE requests
    /\ calls' = Append(calls, "get_location_id")

\* query, lines 164-169: tme = dep_time, dest_id = None, then the origin lookup
query_origin ==
    /\ pc = "query_origin"
    /\ tme' = dep_time
    /\ dest_id' = PyNone
    /\ \E i \in 1..Len(LocationResponses) :
        LET g == get_location_id(rmv_homestation, rmv_homecity, LocationResponses[i]) IN
        /\ Lookup(rmv_homestation, rmv_homecity, LocationResponses[i], g)
        /\ IF g.out.k = "raise"
           THEN /\ pc' = "raised"
                /\ exc' = PyException(g.out.e)
                /\ origin_id' = origin_id
           ELSE /\ pc' = "query_dest"
                /\ exc' = exc
                /\ origin_id' = g.out.v
    /\ UNCHANGED <<cfg, intent, location, dep_time, now, leg_list,
                   stops, response, published>>

\* query, lines 173-180
query_dest ==
    /\ pc = "query_dest"
    /\ \E i \in 1..Len(LocationResponses) :
        LET city == IF cfg.rmv_homecity_only THEN rmv_homecity ELSE PyNone
            g == get_location_id(location, city, LocationResponses[i]) IN
        /\ Lookup(location, city, LocationResponses[i], g)
        /\ IF g.out.k = "raise"
           THEN /\ pc' = "raised"
                /\ exc' = PyException(g.out.e)
                /\ UNCHANGED <<dest_id, response>>
           ELSE /\ exc' = exc
                /\ dest_id' = g.out.v
                /\ IF ~Truthy(origin_id) \/ ~Truthy(g.out.v)
                   THEN /\ response' = PyFalse
                        /\ pc' = "done"
                   ELSE /\ response' = response
                        /\ pc' = "query_time"
    /\ UNCHANGED <<cfg, intent, location, dep_time, origin_id, now, tme, leg_list,
                   stops, published>>

\* query, lines 184-186
query_time ==
    /\ pc = "query_time"
    /\ \E clock \in NowSamples :
        /\ tme' = departure_time(tme, cfg.time_offset, clock)
        /\ now' = IF computes_time(tme, cfg.time_offset) THEN clock ELSE now
    /\ pc' = "query_trip"
    /\ UNCHANGED <<cfg, intent, location, dep_time, origin_id, dest_id, leg_list,
                   stops, response, lookups, requests, calls, published, exc>>

\* query, lines 190-194
query_trip ==
    /\ pc = "query_trip"
    /\ \E r \in TripResponses :
        LET g == get_trip(origin_id, dest_id, tme, r) IN
        /\ requests' = Append(requests, g.request)
        /\ calls' = calls \o <<"get_trip">>
                    \o (IF g.normalized THEN <<"process_leg_list">> ELSE <<>>)
        /\ leg_list' = IF g.normalized THEN PyList(g.legs) ELSE leg_list
        /\ IF g.out.k = "raise"
           THEN /\ pc' = "raised"
                /\ exc' = PyException(g.out.e)
                /\ UNCHANGED <<stops, response>>
           ELSE /\ exc' = exc
                /\ stops' = g.out.v
                /\ IF g.out.v = PyNone
                   THEN /\ response' = PyFalse
                        /\ pc' = "done"
                   ELSE /\ response' = response
                        /\ pc' = "query_response"
    /\ UNCHANGED <<cfg, intent, location, dep_time, origin_id, dest_id, now, tme,
                   lookups, published>>

\* query, lines 196-203
query_response ==
    /\ pc = "query_response"
    /\ calls' = Append(calls, "make_response")
    /\ LET made == make_response(stops, cfg.short_info) IN
        IF made.k = "raise"
        THEN /\ pc' = "raised"
             /\ exc' = PyException(made.e)
             /\ response' = response
        ELSE /\ pc' = "done"
             /\ exc' = exc
             /\ response' = made.v
    /\ UNCHANGED <<cfg, intent, location, dep_time, origin_id, dest_id, now, tme,
                   leg_list, stops, lookups, requests, published>>

\* done, lines 349-353: the text handed to publish_end_session
end_session_text(response_message) ==
    IF response_message # PyNone THEN response_message ELSE PyStr(Apology)

\* on_intent line 156 and done
done ==
    /\ pc = "done"
    /\ published' = Append(published,
           [session_id |-> intent.session_id, text |-> end_session_text(response)])
    /\ calls' = Append(calls, "done")
    /\ pc' = "finished"
    /\ UNCHANGED <<cfg, intent, location, dep_time, origin_id, dest_id, now, tme,
                   leg_list, stops, response, lookups, requests, exc>>

Next ==
    \/ on_intent
    \/ query_origin
    \/ query_dest
    \/ query_time
    \/ query_trip
    \/ query_response
    \/ done

Spec == Init /\ [][Next]_vars

-----------------------------------------------------------------------------
(* process_leg_list and make_response on their own: the leg list and       *)
(* short_info are drawn, process_leg_list is applied, then make_response   *)
(* as query applies it (to a list, never to None).                         *)

LegInit ==
    /\ pc = "legs"
    /\ cfg \in [rmv_homecity_only : {TRUE}, time_offset : {PyNone},
                short_info : BOOLEAN]
    /\ leg_list \in {PyList(legs) : legs \in LegLists(LegSamples, MaxLegs)}
    /\ intent = Unset
    /\ location = Unset
    /\ dep_time = Unset
    /\ origin_id = Unset
    /\ dest_id = Unset
    /\ now = Unset
    /\ tme = Unset
    /\ stops = Unset
    /\ response = Unset
    /\ lookups = <<>>
    /\ requests = <<>>
    /\ calls = <<>>
    /\ published = <<>>
    /\ exc = Unset

normalize_legs ==
    /\ pc = "legs"
    /\ stops' = process_leg_list(leg_list.v)
    /\ calls' = Append(calls, "process_leg_list")
    /\ pc' = "legs_normalized"
    /\ UNCHANGED <<cfg, intent, location, dep_time, origin_id, dest_id, now, tme,
                   leg_list, response, lookups, requests, published, exc>>

synthesize_stops ==
    /\ pc = "legs_normalized"
    /\ stops # PyNone
    /\ calls' = Append(calls, "make_response")
    /\ LET made == make_response(stops, cfg.short_info) IN
        IF made.k = "raise"
        THEN /\ pc' = "legs_raised"
             /\ exc' = PyException(made.e)
             /\ response' = response
        ELSE /\ pc' = "legs_done"
             /\ exc' = exc
             /\ response' = made.v
    /\ UNCHANGED <<cfg, intent, location, dep_time, origin_id, dest_id, now, tme,
                   leg_list, stops, lookups, requests, published>>

LegNext ==
    \/ normalize_legs
    \/ synthesize_stops

LegSpec == LegInit /\ [][LegNext]_vars

-----------------------------------------------------------------------------
(* Properties *)

HandledGetTrainTo == intent # Unset /\ intent.intent_name = GetTrainTo

\* query returned without a response text
QueryFailed == pc \in {"done", "finished"} /\ response \in {PyFalse, PyNone}

\* a stage of the pipeline has failed
StageFailed ==
    \/ \E i \in 1..Len(lookups) :
           lookups[i].out.k = "raise" \/ lookups[i].out.v = PyNone
    \/ stops = PyNone
    \/ exc # Unset

BothResolved == origin_id.t = "tuple" /\ dest_id.t = "tuple"

LocationRequests == {i \in 1..Len(requests) : requests[i].url = LOCATION_SVC}
TripRequests == {i \in 1..Len(requests) : requests[i].url = TRIP_SVC}

Invoked(stage) == \E i \in 1..Len(calls) : calls[i] = stage

\* the stop is a transit stop: it has a direction and a train label
HasTransitFields(stop) == {"direction", "train"} \subseteq DOMAIN stop

\* C1: whenever a handled s710:getTrainTo intent ends with a failed stage,
\* the only session-ending text published is the fixed apology string.
C1_FailurePublishesApology ==
    (pc = "finished" /\ HandledGetTrainTo /\ QueryFailed)
        => published = <<[session_id |-> intent.session_id,
                          text |-> PyStr(Apology)]>>

\* C2 as claimed: in short form the response holds no clause beginning
\* "Umsteigen an".
C2_ShortFormNoTransferClause ==
    (pc = "legs_done" /\ cfg.short_info /\ response.t = "str")
        => Count(response.v, "Umsteigen an ") = 0

\* the walk stops before the first stop that is not a walk
RECURSIVE LeadingWalks(_)
LeadingWalks(stop_list) ==
    IF Len(stop_list) = 0 \/ Head(stop_list).category # "walk" THEN 0
    ELSE 1 + LeadingWalks(Tail(stop_list))

\* C2, amended: in short form the response holds at most one clause beginning
\* "Umsteigen an", none when the first leg is a transit leg and one when walk
\* legs precede the first transit leg; it consists of the walk clauses
\* preceding the first transit leg, that leg's clause and the arrival clause.
C2_ShortFormOneTransitClause ==
    (pc = "legs_done" /\ cfg.short_info /\ response.t = "str")
        => LET walks == LeadingWalks(stops.v)
               transit == walks < Len(stops.v)
           IN /\ Count(response.v, "Umsteigen an ")
                    = (IF transit /\ walks > 0 THEN 1 ELSE 0)
              /\ Count(response.v, " Richtung ") = (IF transit THEN 1 ELSE 0)
              /\ Count(response.v, " Meter laufen bis ") = walks
              /\ Count(response.v, " Uhr.") = (IF transit THEN 2 ELSE 1)

\* C2: a walk, then a ride, in short form: one transfer-style clause is spoken
C2_Witness ==
    /\ pc = "legs_done"
    /\ cfg.short_info
    /\ response.t = "str"
    /\ Len(stops.v) = 3
    /\ stops.v[1].category = "walk"
    /\ stops.v[2].category = "S-Bahn"
    /\ Count(response.v, "Umsteigen an ") = 1

\* C3: a raw leg list in which a leg lacks a required field is normalized to
\* None, make_response is not invoked and query returns the failure signal.
C3_AllOrNothing ==
    (leg_list # Unset /\ \E i \in 1..Len(leg_list.v) : ~HasRequired(leg_list.v[i]))
        => /\ stops = PyNone
           /\ ~Invoked("make_response")
           /\ pc \in {"done", "finished"}
           /\ response = PyFalse

\* C3: a good leg followed by one without Destination.name
C3_Witness ==
    /\ pc = "finished"
    /\ leg_list # Unset
    /\ Len(leg_list.v) = 2
    /\ HasRequired(leg_list.v[1])
    /\ "name" \notin DOMAIN leg_list.v[2].Destination
    /\ stops = PyNone
    /\ response = PyFalse

\* C4: a response string ends with "Ankunft um <arrival> Uhr.", <arrival> being
\* the arrival time of the last stop of the itinerary, and holds that clause once.
C4_EndsWithLastArrival ==
    (pc = "legs_done" /\ response.t = "str")
        => /\ EndsWith(response.v,
                  "Ankunft um " \o stops.v[Len(stops.v)].arrival \o " Uhr.")
           /\ stops.v[Len(stops.v)].arrival
                  = hour_minute(leg_list.v[Len(leg_list.v)].Destination.time)
           /\ Count(response.v, "Ankunft um ") = 1

\* C4: short form stops after the first ride, the arrival is that of the last leg
C4_Witness ==
    /\ pc = "legs_done"
    /\ cfg.short_info
    /\ response.t = "str"
    /\ Len(stops.v) = 3
    /\ stops.v[1].category = "S-Bahn"
    /\ stops.v[3].arrival = "08:47"
    /\ response.v = "S-Bahn S5 Richtung Bad Homburg um 08:15 Uhr. Ankunft um 08:47 Uhr."

\* C5: no call of get_location_id raises, and a call returns a pair exactly
\* when the response has the full expected shape.
C5_LookupNeverRaises ==
    \A i \in 1..Len(lookups) :
        /\ lookups[i].out.k = "return"
        /\ (lookups[i].out.v.t = "tuple")
               <=> (lookups[i].issued /\ FullLocationShape(lookups[i].r))

\* C6: no stage is started after a failed one, no request is issued twice,
\* and query returns the failure signal when a stage failed.
C6_ShortCircuit ==
    /\ Len(lookups) >= 2 => (lookups[1].out.k = "return" /\ lookups[1].out.v.t = "tuple")
    /\ TripRequests # {} => BothResolved
    /\ Cardinality(LocationRequests) <= 2
    /\ Cardinality(TripRequests) <= 1
    /\ (Invoked("make_response") \/ Invoked("process_leg_list")) => BothResolved
    /\ Invoked("make_response") => (stops # Unset /\ stops # PyNone)
    /\ (StageFailed /\ pc \in {"done", "finished"}) => response = PyFalse

\* the parameters of the trip request, once it is issued
TripParams == requests[CHOOSE i \in TripRequests : TRUE].params

\* C7 as claimed: an explicit (non-empty) time is passed verbatim; with none
\* and a non-null offset, 0 included, the time is now + offset as "HH:MM:00";
\* the time is omitted only when there is neither.
C7_NonNullOffsetSetsTime ==
    TripRequests # {} =>
        /\ Truthy(dep_time)
               => ("time" \in DOMAIN TripParams /\ TripParams.time = dep_time)
        /\ (~Truthy(dep_time) /\ cfg.time_offset # PyNone)
               => /\ "time" \in DOMAIN TripParams
                  /\ now # Unset
                  /\ TripParams.time = PyStr(plus_minutes(now, cfg.time_offset.v))
        /\ "time" \notin DOMAIN TripParams
               => (~Truthy(dep_time) /\ cfg.time_offset = PyNone)

\* C7, amended: a non-empty explicit time is passed verbatim; with none (or an
\* empty one) and a non-zero offset the time is now + offset as "HH:MM:00";
\* the time is omitted exactly when no time was supplied and the offset is
\* null or 0.
C7_NonZeroOffsetSetsTime ==
    TripRequests # {} =>
        /\ Truthy(dep_time)
               => ("time" \in DOMAIN TripParams /\ TripParams.time = dep_time)
        /\ (~Truthy(dep_time) /\ cfg.time_offset.t = "int" /\ cfg.time_offset.v # 0)
               => /\ "time" \in DOMAIN TripParams
                  /\ now # Unset
                  /\ TripParams.time = PyStr(plus_minutes(now, cfg.time_offset.v))
                  /\ Len(TripParams.time.v) = 8
                  /\ EndsWith(TripParams.time.v, ":00")
        /\ "time" \notin DOMAIN TripParams
               <=> (dep_time = PyNone
                    /\ (cfg.time_offset = PyNone \/ cfg.time_offset = PyInt(0)))

\* C7: no time supplied, offset 5, the clock at 23:58:59
C7_Witness ==
    /\ TripRequests # {}
    /\ dep_time = PyNone
    /\ cfg.time_offset = PyInt(5)
    /\ now = Clock(23, 58, 59)
    /\ TripParams.time = PyStr("00:03:00")

\* C8: every stop has a category and exactly one of the transit fields or the
\* distance; it is a walk exactly when the raw type is "WALK", and only a
\* walk has a distance.
C8_StopShape ==
    (pc # "legs" /\ stops # Unset /\ stops # PyNone) =>
        \A i \in 1..Len(stops.v) :
            LET stop == stops.v[i]
                leg == leg_list.v[i]
            IN /\ "category" \in DOMAIN stop
               /\ HasTransitFields(stop) <=> "distance" \notin DOMAIN stop
               /\ (stop.category = "walk")
                      <=> ("type" \in DOMAIN leg /\ leg.type = "WALK")
               /\ "distance" \in DOMAIN stop => stop.category = "walk"

\* C9: once process_leg_list has accepted the leg list, query returns: no
\* exception leaves it.
C9_AcceptedLegsNeverRaise ==
    (BothResolved /\ stops # Unset /\ stops # PyNone) => pc # "raised"

\* C10: a handled s710:getTrainTo intent ends with exactly one
\* publish_end_session for its session; another intent publishes nothing and
\* issues no request.
C10_OneEndSession ==
    /\ Len(published) <= 1
    /\ (pc \in {"finished", "raised"} /\ HandledGetTrainTo)
           => /\ Len(published) = 1
              /\ published[1].session_id = intent.session_id
    /\ (intent # Unset /\ intent.intent_name # GetTrainTo)
           => (published = <<>> /\ requests = <<>>)

====
